---- MODULE Spec2Model ----
(***************************************************************************)
(* django_transaction_signals: post_commit / post_rollback signals patched *)
(* into the host's django.db.transaction module, and the defer() helper.   *)
(*                                                                         *)
(* The shim's state is the class attribute TransactionSignals.signals, a   *)
(* dict from thread identity to a ThreadSignals object.  The host keeps,   *)
(* per thread, a stack of managed flags and a dirty flag; the shim reads   *)
(* them through is_managed() and is_dirty().  Every thread runs a call     *)
(* stack: listeners run inside the broadcast that invokes them and may call*)
(* the patched operations themselves.                                      *)
(***************************************************************************)
EXTENDS Naturals, Sequences, FiniteSets

VARIABLES
    signals,    \* TransactionSignals.signals: thread ident -> ThreadSignals
    state,      \* host: per thread, the stack of managed flags (top first)
    dirty,      \* host: per thread, the dirty flag
    stack,      \* per thread, the call stack of running frames (top first)
    exc,        \* per thread, the exception in flight ("none" when there is none);
                \* with an empty stack it is the outcome of the last top-level call
    regs        \* the callables handed to connect() or defer() that are still
                \* referenced (by a signal or a frame), with their history

vars == <<signals, state, dirty, stack, exc, regs>>

----------------------------------------------------------------------------
(* Bounds of the model *)

MaxRegs == 2        \* callables referenced at one time
MaxNest == 2        \* depth of nested enter_transaction_management
MaxDepth == 4       \* frames on one thread's call stack

Threads == {"A", "B"}
Chans == {"post_commit", "post_rollback"}

\* settings.TRANSACTIONS_MANAGED of the host: is_managed() outside any block
TRANSACTIONS_MANAGED == FALSE

None == "none"
BadlyBehaved == "BadlyBehavedTransactionSignalHandlerError"
TME == "TransactionManagementError"
ListenerError == "ListenerError"
AssertionError == "AssertionError"

----------------------------------------------------------------------------
(* Calls made by application code and by listeners *)

Call(name) == [op |-> name, chan |-> None, fn |-> None, flag |-> TRUE, kw |-> FALSE]
ConnectCall(c, f) == [Call("connect") EXCEPT !.chan = c, !.fn = f]
DeferCall(f) == [Call("defer") EXCEPT !.fn = f]
ManagedCall(passed, bykw) == [Call("managed") EXCEPT !.flag = passed, !.kw = bykw]

\* The listeners and callbacks callers supply, named by what their body does.
Fns == {"noop", "dirty", "dirty_commit", "connect", "raise"}

Body(fn) ==
    CASE fn = "noop" -> <<>>
      [] fn = "dirty" -> <<Call("set_dirty")>>
      [] fn = "dirty_commit" -> <<Call("set_dirty"), Call("commit")>>
      [] fn = "connect" -> <<ConnectCall("post_commit", "noop")>>
      [] fn = "raise" -> <<Call("raise")>>

\* The argument a receiver gets from Signal.send, and the one defer() is given
SenderKw == "sender=transaction"
Args == "args"

----------------------------------------------------------------------------
(* Frames of a thread's call stack *)

Frame(ty) == [type |-> ty, rid |-> 0, chan |-> None, all |-> <<>>, pending |-> <<>>,
              dropped |-> <<>>, body |-> <<>>, arg |-> None, phase |-> None,
              saved |-> None, via |-> None, cont |-> None, olds |-> 0]
\* A broadcast: `receivers` are those of the signal that is sent (`pending`
\* those still to call); `others` (history) those of the other signal of
\* the removed ThreadSignals; `olds` counts the calls of the original
\* operation by the patched operation `by`, which has called it once when
\* it broadcasts
SendFrame(c, receivers, others, by, k) ==
    [Frame("send") EXCEPT !.chan = c, !.all = receivers, !.pending = receivers,
                          !.dropped = others, !.via = by, !.cont = k, !.olds = 1]
RunFrame(r, b, a) == [Frame("run") EXCEPT !.rid = r, !.body = b, !.arg = a]
CosFrame(r) == [Frame("cos") EXCEPT !.rid = r, !.phase = "enter"]

Set(f, t, v) == [f EXCEPT ![t] = v]
Push(fr, base) == <<fr>> \o base

----------------------------------------------------------------------------
(* TransactionSignals: the registry *)

ThreadSignals == [post_commit |-> <<>>, post_rollback |-> <<>>]

_has_signals(sig, t) == t \in DOMAIN sig

_init_signals_fresh(sig, t) == [x \in {t} |-> ThreadSignals]

_init_signals(sig, t) ==
    [x \in DOMAIN sig \cup {t} |-> IF x = t THEN ThreadSignals ELSE sig[x]]

_remove_signals_kept(sig, t) == sig

_remove_signals(sig, t) == [x \in DOMAIN sig \ {t} |-> sig[x]]

_get_or_init_signals(sig, t) ==
    IF _has_signals(sig, t) THEN sig ELSE _init_signals(sig, t)

_on_exit_without_update(sig, t) ==
    IF _has_signals(sig, t) THEN _remove_signals(sig, t) ELSE sig

\* The assertions of the registry functions: _init_signals wants the key
\* absent, _remove_signals and _get_signals want it present
_init_signals_assert(sig, t) == t \notin DOMAIN sig
_remove_signals_assert(sig, t) == t \in DOMAIN sig
_get_signals_assert(sig, t) == t \in DOMAIN sig

\* The assertions a call of each function evaluates hold
_get_or_init_signals_asserts(sig, t) ==
    IF _has_signals(sig, t) THEN _get_signals_assert(sig, t)
    ELSE _init_signals_assert(sig, t)

_on_exit_without_update_unguarded(sig, t) == _remove_signals_assert(sig, t)

_on_exit_without_update_asserts(sig, t) ==
    _has_signals(sig, t) => _remove_signals_assert(sig, t)

\* _get_signals, then _remove_signals, in _send_post_commit and _send_post_rollback
_send_asserts(sig, t) ==
    _get_signals_assert(sig, t) /\ _remove_signals_assert(sig, t)

----------------------------------------------------------------------------
(* The host's predicates *)

is_managed(t) == IF state[t] # <<>> THEN Head(state[t]) ELSE TRANSACTIONS_MANAGED
is_dirty(t) == dirty[t]


----------------------------------------------------------------------------
(* History: one record per callable handed to connect() or defer(), kept   *)
(* while a signal or a frame still refers to the callable                  *)

\*   seq: the position at which it was connected to its signal
\*   calls: how often Signal.send (or defer itself) has called it
\*   runs: how often the body of the function handed in has started
\*   rb, ended: its transaction was rolled back / left clean while it waited
Reg(f, c, t, h, n) ==
    [fn |-> f, chan |-> c, owner |-> t, how |-> h, seq |-> n, calls |-> 0,
     runs |-> 0, rb |-> FALSE, ended |-> FALSE]

Free == Reg(None, None, None, "free", 0)

Rids == 1 .. MaxRegs
Range(s) == {s[i] : i \in DOMAIN s}

Receivers(sig) ==
    UNION {Range(sig[t].post_commit) \cup Range(sig[t].post_rollback) : t \in DOMAIN sig}

Referenced(sig, stk) ==
    Receivers(sig)
    \cup UNION {UNION {Range(stk[t][i].all) \cup Range(stk[t][i].dropped)
                        \cup {stk[t][i].rid} : i \in DOMAIN stk[t]}
                : t \in DOMAIN stk}

Collect(rg, sig, stk) ==
    [r \in Rids |-> IF r \in Referenced(sig, stk) THEN rg[r] ELSE Free]

HasFree == \E r \in Rids : regs[r] = Free
NewRid == CHOOSE r \in Rids : regs[r] = Free /\ \A q \in Rids : q < r => regs[q] # Free

\* The receivers connected to post_commit in t's current ThreadSignals
LiveCommit(t) == IF _has_signals(signals, t) THEN Range(signals[t].post_commit) ELSE {}

Called(r) == [regs EXCEPT ![r].calls = @ + 1]
Ran(r) == [regs EXCEPT ![r].runs = @ + 1]

MarkRolledBack(t) ==
    [r \in Rids |-> IF r \in LiveCommit(t) THEN [regs[r] EXCEPT !.rb = TRUE] ELSE regs[r]]

MarkEnded(t) ==
    [r \in Rids |-> IF r \in LiveCommit(t) THEN [regs[r] EXCEPT !.ended = TRUE] ELSE regs[r]]

\* The last conjunct of every action: the history after the step
History(rg) == regs' = Collect(rg, signals', stack')

----------------------------------------------------------------------------
(* TransactionSignals._send_post_commit and _send_post_rollback.  `base` is *)
(* the caller's stack once the call has returned; `by` names the patched    *)
(* operation that broadcasts and `k` what its caller raises after it.       *)

_send_post_commit_kept(t, by, k, base) ==
    IF _has_signals(signals, t)
    THEN /\ Len(base) < MaxDepth
         /\ signals' = signals
         /\ stack' = Set(stack, t, Push(SendFrame("post_commit", signals[t].post_commit,
                                                  signals[t].post_rollback, by, k), base))
         /\ exc' = Set(exc, t, None)
    ELSE /\ signals' = signals
         /\ stack' = Set(stack, t, base)
         /\ exc' = Set(exc, t, k)

_send_post_commit_checked(t, by, k, base) ==
    IF _has_signals(signals, t)
    THEN /\ Len(base) < MaxDepth
         /\ signals' = _remove_signals(signals, t)
         /\ stack' = Set(stack, t, Push(SendFrame("post_commit", signals[t].post_commit,
                                                  signals[t].post_rollback, by, k), base))
         /\ exc' = Set(exc, t, None)
    ELSE /\ signals' = signals
         /\ stack' = Set(stack, t, base)
         /\ exc' = Set(exc, t, IF dirty'[t] THEN BadlyBehaved ELSE k)

_send_post_commit(t, by, k, base) ==
    IF _has_signals(signals, t)
    THEN IF _send_asserts(signals, t)
         THEN /\ Len(base) < MaxDepth
              /\ signals' = _remove_signals(signals, t)
              /\ stack' = Set(stack, t, Push(SendFrame("post_commit", signals[t].post_commit,
                                                       signals[t].post_rollback, by, k), base))
              /\ exc' = Set(exc, t, None)
         ELSE /\ signals' = signals
              /\ stack' = Set(stack, t, base)
              /\ exc' = Set(exc, t, AssertionError)
    ELSE /\ signals' = signals
         /\ stack' = Set(stack, t, base)
         /\ exc' = Set(exc, t, k)

_send_post_rollback_commit(t, by, k, base) ==
    IF _has_signals(signals, t)
    THEN /\ Len(base) < MaxDepth
         /\ signals' = _remove_signals(signals, t)
         /\ stack' = Set(stack, t, Push(SendFrame("post_rollback", signals[t].post_commit,
                                                  signals[t].post_rollback, by, k), base))
         /\ exc' = Set(exc, t, None)
    ELSE /\ signals' = signals
         /\ stack' = Set(stack, t, base)
         /\ exc' = Set(exc, t, k)

_send_post_rollback(t, by, k, base) ==
    IF _has_signals(signals, t)
    THEN IF _send_asserts(signals, t)
         THEN /\ Len(base) < MaxDepth
              /\ signals' = _remove_signals(signals, t)
              /\ stack' = Set(stack, t, Push(SendFrame("post_rollback", signals[t].post_rollback,
                                                       signals[t].post_commit, by, k), base))
              /\ exc' = Set(exc, t, None)
         ELSE /\ signals' = signals
              /\ stack' = Set(stack, t, base)
              /\ exc' = Set(exc, t, AssertionError)
    ELSE /\ signals' = signals
         /\ stack' = Set(stack, t, base)
         /\ exc' = Set(exc, t, k)

----------------------------------------------------------------------------
(* The patched operations of django.db.transaction *)

\* kwargs.get('flag', True): the flag the patched managed() works with
flagOf(passed, bykw) == IF bykw THEN passed ELSE TRUE

managed(t, passed, bykw, base) ==
    LET flag == flagOf(passed, bykw)
        to_commit == ~flag /\ is_dirty(t)
    IN  /\ state[t] # <<>>
        \* old_managed(flag): sets the top flag, commits a dirty transaction
        \* when the flag is cleared
        /\ state' = Set(state, t, <<flag>> \o Tail(state[t]))
        /\ dirty' = Set(dirty, t, IF ~flag /\ is_dirty(t) THEN FALSE ELSE dirty[t])
        /\ IF to_commit
           THEN _send_post_commit(t, "managed", None, base)
           ELSE /\ stack' = Set(stack, t, base)
                /\ IF _on_exit_without_update_asserts(signals, t)
                   THEN /\ signals' = _on_exit_without_update(signals, t)
                        /\ exc' = Set(exc, t, None)
                   ELSE /\ signals' = signals
                        /\ exc' = Set(exc, t, AssertionError)
        /\ History(regs)

commit_unless_managed_always(t, base) ==
    /\ dirty' = Set(dirty, t, IF is_managed(t) THEN TRUE ELSE dirty[t])
    /\ _send_post_commit(t, "commit_unless_managed", None, base)
    /\ UNCHANGED state
    /\ History(regs)

commit_unless_managed(t, base) ==
    \* old_commit_unless_managed: commits when not managed, else marks dirty
    /\ dirty' = Set(dirty, t, IF is_managed(t) THEN TRUE ELSE dirty[t])
    /\ IF ~is_managed(t)
       THEN _send_post_commit(t, "commit_unless_managed", None, base)
       ELSE /\ stack' = Set(stack, t, base)
            /\ exc' = Set(exc, t, None)
            /\ UNCHANGED signals
    /\ UNCHANGED state
    /\ History(regs)

rollback_unless_managed(t, base) ==
    \* old_rollback_unless_managed: rolls back when not managed, else marks dirty
    /\ dirty' = Set(dirty, t, IF is_managed(t) THEN TRUE ELSE dirty[t])
    /\ UNCHANGED state
    /\ IF ~is_managed(t)
       THEN /\ _send_post_rollback(t, "rollback_unless_managed", None, base)
            /\ History(MarkRolledBack(t))
       ELSE /\ stack' = Set(stack, t, base)
            /\ exc' = Set(exc, t, None)
            /\ UNCHANGED signals
            /\ History(regs)

commit_if_dirty(t, base) ==
    /\ dirty' = Set(dirty, t, FALSE)
    /\ IF is_dirty(t)
       THEN _send_post_commit(t, "commit", None, base)
       ELSE /\ stack' = Set(stack, t, base)
            /\ exc' = Set(exc, t, None)
            /\ UNCHANGED signals
    /\ UNCHANGED state
    /\ History(regs)

commit(t, base) ==
    \* old_commit: commits and marks the transaction clean
    /\ dirty' = Set(dirty, t, FALSE)
    /\ _send_post_commit(t, "commit", None, base)
    /\ UNCHANGED state
    /\ History(regs)

\* rollback(), also as the host's leave_transaction_management calls it
rollbackThen(t, k, base) ==
    \* old_rollback: rolls back and marks the transaction clean
    /\ dirty' = Set(dirty, t, FALSE)
    /\ _send_post_rollback(t, "rollback", k, base)
    /\ History(MarkRolledBack(t))

rollback(t, base) ==
    /\ UNCHANGED state
    /\ rollbackThen(t, None, base)

----------------------------------------------------------------------------
(* Operations of the host the package leaves unpatched *)

enter_transaction_management(t, base) ==
    /\ Len(state[t]) < MaxNest
    /\ state' = Set(state, t, <<is_managed(t)>> \o state[t])
    /\ stack' = Set(stack, t, base)
    /\ exc' = Set(exc, t, None)
    /\ UNCHANGED <<signals, dirty>>
    /\ History(regs)

leave_transaction_management(t, base) ==
    /\ state[t] # <<>>
    /\ state' = Set(state, t, Tail(state[t]))
    /\ IF is_dirty(t)
       THEN \* pending changes: rollback(), then TransactionManagementError
            rollbackThen(t, TME, base)
       ELSE /\ stack' = Set(stack, t, base)
            /\ exc' = Set(exc, t, None)
            /\ UNCHANGED <<signals, dirty>>
            /\ History(IF Tail(state[t]) = <<>> THEN MarkEnded(t) ELSE regs)

set_dirty(t, base) ==
    /\ dirty' = Set(dirty, t, TRUE)
    /\ stack' = Set(stack, t, base)
    /\ exc' = Set(exc, t, None)
    /\ UNCHANGED <<signals, state>>
    /\ History(regs)

----------------------------------------------------------------------------
(* transaction.signals.post_commit / post_rollback, Signal.connect, defer  *)

\* Signal.connect keeps one entry per receiver: connecting a function that
\* is already connected to the signal changes nothing.
Connected(sig, t, c, f) ==
    \E i \in DOMAIN sig[t][c] : regs[sig[t][c][i]].fn = f /\ regs[sig[t][c][i]].how = "connect"

\* An assertion of the registry fails in a call that changes nothing else
AssertFails(t, base) ==
    /\ exc' = Set(exc, t, AssertionError)
    /\ stack' = Set(stack, t, base)
    /\ UNCHANGED <<signals, state, dirty>>
    /\ History(regs)

connect(t, c, f, base) ==
    IF ~_get_or_init_signals_asserts(signals, t) THEN AssertFails(t, base)
    ELSE
    LET sig == _get_or_init_signals(signals, t)
        known == Connected(sig, t, c, f)
    IN  /\ ~known => HasFree
        /\ signals' = IF known THEN sig ELSE [sig EXCEPT ![t][c] = Append(@, NewRid)]
        /\ stack' = Set(stack, t, base)
        /\ exc' = Set(exc, t, None)
        /\ UNCHANGED <<state, dirty>>
        /\ History(IF known THEN regs
                   ELSE [regs EXCEPT ![NewRid] = Reg(f, c, t, "connect", Len(sig[t][c]) + 1)])

defer_always_connect(t, f, base) ==
    /\ HasFree
    /\ exc' = Set(exc, t, None)
    /\ UNCHANGED <<state, dirty>>
    /\ signals' = [_get_or_init_signals(signals, t)
                      EXCEPT ![t].post_commit = Append(@, NewRid)]
    /\ stack' = Set(stack, t, base)
    /\ History([regs EXCEPT ![NewRid] =
                   Reg(f, "post_commit", t, "defer", Len(signals'[t].post_commit))])

defer(t, f, base) ==
    IF is_managed(t) /\ ~_get_or_init_signals_asserts(signals, t) THEN AssertFails(t, base)
    ELSE
    /\ HasFree
    /\ exc' = Set(exc, t, None)
    /\ UNCHANGED <<state, dirty>>
    /\ IF is_managed(t)
       THEN \* f_deferred is a new function each time: never a duplicate
            /\ signals' = [_get_or_init_signals(signals, t)
                              EXCEPT ![t].post_commit = Append(@, NewRid)]
            /\ stack' = Set(stack, t, base)
            /\ History([regs EXCEPT ![NewRid] =
                           Reg(f, "post_commit", t, "defer", Len(signals'[t].post_commit))])
       ELSE /\ Len(base) < MaxDepth
            /\ stack' = Set(stack, t, Push(RunFrame(NewRid, Body(f), Args), base))
            /\ UNCHANGED signals
            /\ History([regs EXCEPT ![NewRid] =
                           [Reg(f, None, t, "direct", 0) EXCEPT !.calls = 1, !.runs = 1]])

\* a listener whose body raises
raise(t, base) ==
    /\ exc' = Set(exc, t, ListenerError)
    /\ stack' = Set(stack, t, base)
    /\ UNCHANGED <<signals, state, dirty>>
    /\ History(regs)

Do(t, c, base) ==
    \/ c.op = "managed" /\ managed(t, c.flag, c.kw, base)
    \/ c.op = "commit_unless_managed" /\ commit_unless_managed(t, base)
    \/ c.op = "rollback_unless_managed" /\ rollback_unless_managed(t, base)
    \/ c.op = "commit" /\ commit(t, base)
    \/ c.op = "rollback" /\ rollback(t, base)
    \/ c.op = "enter" /\ enter_transaction_management(t, base)
    \/ c.op = "leave" /\ leave_transaction_management(t, base)
    \/ c.op = "set_dirty" /\ set_dirty(t, base)
    \/ c.op = "connect" /\ connect(t, c.chan, c.fn, base)
    \/ c.op = "defer" /\ defer(t, c.fn, base)
    \/ c.op = "raise" /\ raise(t, base)

\* What application code may call at top level, with listeners and
\* callbacks among fns
CallsWith(fns) ==
    {Call(n) : n \in {"commit_unless_managed", "rollback_unless_managed", "commit",
                      "rollback", "enter", "leave", "set_dirty"}}
    \cup {ManagedCall(p, k) : p \in BOOLEAN, k \in BOOLEAN}
    \cup {ConnectCall(c, f) : c \in Chans, f \in fns}
    \cup {DeferCall(f) : f \in fns}

AppCalls == CallsWith(Fns)

----------------------------------------------------------------------------
Init ==
    /\ signals = <<>>
    /\ state = [t \in Threads |-> <<>>]
    /\ dirty = [t \in Threads |-> FALSE]
    /\ stack = [t \in Threads |-> <<>>]
    /\ exc = [t \in Threads |-> None]
    /\ regs = [r \in Rids |-> Free]

----------------------------------------------------------------------------
(* Steps of a thread *)

Top(t) == Head(stack[t])
Rest(t) == Tail(stack[t])
Running(t, ty) == stack[t] # <<>> /\ exc[t] = None /\ Top(t).type = ty

\* Application code calls an operation at top level
App(t) ==
    /\ stack[t] = <<>>
    /\ \E c \in AppCalls : Do(t, c, <<>>)

SendNext_last(t) ==
    /\ Running(t, "send")
    /\ Top(t).pending # <<>>
    /\ Len(stack[t]) < MaxDepth
    /\ UNCHANGED <<signals, state, dirty, exc>>
    /\ LET r == Top(t).pending[Len(Top(t).pending)]
           below == Push([Top(t) EXCEPT !.pending = SubSeq(@, 1, Len(@) - 1)], Rest(t))
       IN  IF regs[r].how = "defer"
           THEN \* f_deferred, the commit_on_success wrapper of the callback
                /\ stack' = Set(stack, t, Push(CosFrame(r), below))
                /\ History(Called(r))
           ELSE /\ stack' = Set(stack, t, Push(RunFrame(r, Body(regs[r].fn), SenderKw), below))
                /\ History([Called(r) EXCEPT ![r].runs = @ + 1])

\* Signal.send: the next receiver is called
SendNext(t) ==
    /\ Running(t, "send")
    /\ Top(t).pending # <<>>
    /\ Len(stack[t]) < MaxDepth
    /\ UNCHANGED <<signals, state, dirty, exc>>
    /\ LET r == Head(Top(t).pending)
           below == Push([Top(t) EXCEPT !.pending = Tail(@)], Rest(t))
       IN  IF regs[r].how = "defer"
           THEN \* f_deferred, the commit_on_success wrapper of the callback
                /\ stack' = Set(stack, t, Push(CosFrame(r), below))
                /\ History(Called(r))
           ELSE /\ stack' = Set(stack, t, Push(RunFrame(r, Body(regs[r].fn), SenderKw), below))
                /\ History([Called(r) EXCEPT ![r].runs = @ + 1])

SendDone_unchecked(t) ==
    /\ Running(t, "send")
    /\ Top(t).pending = <<>>
    /\ stack' = Set(stack, t, Rest(t))
    /\ exc' = Set(exc, t, Top(t).cont)
    /\ UNCHANGED <<signals, state, dirty>>
    /\ History(regs)

\* Signal.send has returned: the check for a badly behaved listener
SendDone(t) ==
    /\ Running(t, "send")
    /\ Top(t).pending = <<>>
    /\ stack' = Set(stack, t, Rest(t))
    /\ exc' = Set(exc, t, IF is_dirty(t) THEN BadlyBehaved ELSE Top(t).cont)
    /\ UNCHANGED <<signals, state, dirty>>
    /\ History(regs)

\* A listener or callback makes its next call
RunStep(t) ==
    /\ Running(t, "run")
    /\ Top(t).body # <<>>
    /\ Do(t, Head(Top(t).body), Push([Top(t) EXCEPT !.body = Tail(@)], Rest(t)))

RunReturn(t) ==
    /\ Running(t, "run")
    /\ Top(t).body = <<>>
    /\ stack' = Set(stack, t, Rest(t))
    /\ UNCHANGED <<signals, state, dirty, exc>>
    /\ History(regs)

\* The host's commit_on_success around a deferred callback:
\*   enter_transaction_management(); managed(True)
\*   try: f()   except: if is_dirty(): rollback(); raise
\*              else:   if is_dirty(): commit()
\*   finally: leave_transaction_management()
CosNext(t, ph) == Push([Top(t) EXCEPT !.phase = ph], Rest(t))

CosEnter(t) ==
    /\ Running(t, "cos") /\ Top(t).phase = "enter"
    /\ enter_transaction_management(t, CosNext(t, "managed"))

CosManaged(t) ==
    /\ Running(t, "cos") /\ Top(t).phase = "managed"
    /\ managed(t, TRUE, FALSE, CosNext(t, "call"))

CosCall(t) ==
    /\ Running(t, "cos") /\ Top(t).phase = "call"
    /\ Len(stack[t]) < MaxDepth
    /\ stack' = Set(stack, t, Push(RunFrame(Top(t).rid, Body(regs[Top(t).rid].fn), Args),
                                   CosNext(t, "else")))
    /\ UNCHANGED <<signals, state, dirty, exc>>
    /\ History(Ran(Top(t).rid))

CosElse(t) ==
    /\ Running(t, "cos") /\ Top(t).phase = "else"
    /\ IF is_dirty(t)
       THEN commit(t, CosNext(t, "finally"))
       ELSE /\ stack' = Set(stack, t, CosNext(t, "finally"))
            /\ UNCHANGED <<signals, state, dirty, exc>>
            /\ History(regs)

CosExcept(t) ==
    /\ Running(t, "cos") /\ Top(t).phase = "except"
    /\ IF is_dirty(t)
       THEN rollback(t, CosNext(t, "finally"))
       ELSE /\ stack' = Set(stack, t, CosNext(t, "finally"))
            /\ UNCHANGED <<signals, state, dirty, exc>>
            /\ History(regs)

CosFinally(t) ==
    /\ Running(t, "cos") /\ Top(t).phase = "finally"
    /\ leave_transaction_management(t, CosNext(t, "done"))

CosDone(t) ==
    /\ Running(t, "cos") /\ Top(t).phase = "done"
    /\ stack' = Set(stack, t, Rest(t))
    /\ exc' = Set(exc, t, Top(t).saved)
    /\ UNCHANGED <<signals, state, dirty>>
    /\ History(regs)

\* An exception leaves the frame on top of the stack.  Signal.send and plain
\* listeners do not catch; commit_on_success runs its except and finally
\* clauses and raises again.
Unwind(t) ==
    /\ stack[t] # <<>>
    /\ exc[t] # None
    /\ IF Top(t).type = "cos" /\ Top(t).phase # "done"
       THEN /\ stack' = Set(stack, t,
                  Push([Top(t) EXCEPT !.saved = exc[t],
                                      !.phase = IF @ = "else" THEN "except" ELSE "finally"],
                       Rest(t)))
            /\ exc' = Set(exc, t, None)
       ELSE /\ stack' = Set(stack, t, Rest(t))
            /\ exc' = exc
    /\ UNCHANGED <<signals, state, dirty>>
    /\ History(regs)

\* Application code of one of several threads: the listeners and callbacks
\* it supplies return or raise
ThreadFns == {"noop", "raise"}

ThreadCalls == {c \in CallsWith(ThreadFns) : c.op # "defer"}

\* A second thread, which stays outside transaction management: it connects
\* listeners, commits and rolls back
PeerCalls ==
    {Call(n) : n \in {"commit", "rollback", "commit_unless_managed",
                      "rollback_unless_managed"}}
    \cup {ConnectCall(c, "noop") : c \in Chans}

ThreadApp(t) ==
    /\ stack[t] = <<>>
    /\ \E c \in IF t = "A" THEN ThreadCalls ELSE PeerCalls : Do(t, c, <<>>)

\* The steps of a thread inside a call
Inside(t) ==
    \/ SendNext(t)
    \/ SendDone(t)
    \/ RunStep(t)
    \/ RunReturn(t)
    \/ CosEnter(t)
    \/ CosManaged(t)
    \/ CosCall(t)
    \/ CosElse(t)
    \/ CosExcept(t)
    \/ CosFinally(t)
    \/ CosDone(t)
    \/ Unwind(t)

Step(t) == App(t) \/ Inside(t)

\* One thread, any listeners
Next == Step("A")

Spec == Init /\ [][Next]_vars

\* Several threads, interleaved at every step
ThreadStep(t) ==
    \/ ThreadApp(t)
    \/ SendNext(t)
    \/ SendDone(t)
    \/ RunStep(t)
    \/ RunReturn(t)
    \/ Unwind(t)

NextThreads == \E t \in Threads : ThreadStep(t)

SpecThreads == Init /\ [][NextThreads]_vars

----------------------------------------------------------------------------
(* The top-level variant, transaction.py: enter_ and                       *)
(* leave_transaction_management are patched as well, the ThreadSignals     *)
(* stays in the registry during a broadcast, and there is no defer().      *)
(* Definitions of this variant carry the prefix tx_.                       *)

\* _init_signals of this variant does nothing when the key is present
tx_init_signals(sig, t) ==
    IF t \in DOMAIN sig THEN sig
    ELSE [x \in DOMAIN sig \cup {t} |-> IF x = t THEN ThreadSignals ELSE sig[x]]

\* the assertion of _remove_signals, and what it does when the assertion holds
tx_remove_signals_assert(sig, t) == t \in DOMAIN sig

tx_remove_signals(sig, t) == [x \in DOMAIN sig \ {t} |-> sig[x]]

tx_get_or_init_signals(sig, t) ==
    IF _has_signals(sig, t) THEN sig ELSE tx_init_signals(sig, t)

\* transaction.signals.post_commit.send(sender=transaction), for either
\* signal: the property creates the ThreadSignals when there is none, and
\* send works on the receivers connected when it starts
tx_send(t, c, by, k, base) ==
    LET sig == tx_get_or_init_signals(signals, t)
    IN  /\ Len(base) < MaxDepth
        /\ signals' = sig
        /\ stack' = Set(stack, t, Push(SendFrame(c, sig[t][c], <<>>, by, k), base))
        /\ exc' = Set(exc, t, None)

tx_enter_transaction_management(t, base) ==
    /\ Len(state[t]) < MaxNest
    /\ state' = Set(state, t, <<is_managed(t)>> \o state[t])
    /\ signals' = tx_init_signals(signals, t)
    /\ stack' = Set(stack, t, base)
    /\ exc' = Set(exc, t, None)
    /\ UNCHANGED dirty
    /\ History(regs)

tx_rollbackThen(t, k, base) ==
    \* old_rollback: rolls back and marks the transaction clean
    /\ dirty' = Set(dirty, t, FALSE)
    /\ tx_send(t, "post_rollback", "rollback", k, base)
    /\ History(regs)

tx_leave_transaction_management(t, base) ==
    /\ state[t] # <<>>
    /\ state' = Set(state, t, Tail(state[t]))
    /\ IF is_dirty(t)
       THEN \* old_leave_transaction_management finds pending changes:
            \* rollback(), then TransactionManagementError
            tx_rollbackThen(t, TME, base)
       ELSE /\ stack' = Set(stack, t, base)
            /\ UNCHANGED dirty
            /\ IF tx_remove_signals_assert(signals, t)
               THEN /\ signals' = tx_remove_signals(signals, t)
                    /\ exc' = Set(exc, t, None)
               ELSE /\ signals' = signals
                    /\ exc' = Set(exc, t, AssertionError)
            /\ History(regs)

tx_managed(t, flag, base) ==
    LET to_commit == ~flag /\ is_dirty(t)
    IN  /\ state[t] # <<>>
        /\ state' = Set(state, t, <<flag>> \o Tail(state[t]))
        /\ dirty' = Set(dirty, t, IF to_commit THEN FALSE ELSE dirty[t])
        /\ IF to_commit
           THEN tx_send(t, "post_commit", "managed", None, base)
           ELSE /\ stack' = Set(stack, t, base)
                /\ exc' = Set(exc, t, None)
                /\ UNCHANGED signals
        /\ History(regs)

tx_commit_unless_managed(t, base) ==
    /\ dirty' = Set(dirty, t, IF is_managed(t) THEN TRUE ELSE dirty[t])
    /\ IF ~is_managed(t)
       THEN tx_send(t, "post_commit", "commit_unless_managed", None, base)
       ELSE /\ stack' = Set(stack, t, base)
            /\ exc' = Set(exc, t, None)
            /\ UNCHANGED signals
    /\ UNCHANGED state
    /\ History(regs)

tx_rollback_unless_managed(t, base) ==
    /\ dirty' = Set(dirty, t, IF is_managed(t) THEN TRUE ELSE dirty[t])
    /\ IF ~is_managed(t)
       THEN tx_send(t, "post_rollback", "rollback_unless_managed", None, base)
       ELSE /\ stack' = Set(stack, t, base)
            /\ exc' = Set(exc, t, None)
            /\ UNCHANGED signals
    /\ UNCHANGED state
    /\ History(regs)

\* commit: old_commit, the broadcast, and (tx_again) old_commit once more
tx_commit(t, base) ==
    /\ dirty' = Set(dirty, t, FALSE)
    /\ tx_send(t, "post_commit", "commit", None, base)
    /\ UNCHANGED state
    /\ History(regs)

tx_rollback(t, base) ==
    /\ UNCHANGED state
    /\ tx_rollbackThen(t, None, base)

tx_connect(t, c, f, base) ==
    LET sig == tx_get_or_init_signals(signals, t)
        known == Connected(sig, t, c, f)
    IN  /\ ~known => HasFree
        /\ signals' = IF known THEN sig ELSE [sig EXCEPT ![t][c] = Append(@, NewRid)]
        /\ stack' = Set(stack, t, base)
        /\ exc' = Set(exc, t, None)
        /\ UNCHANGED <<state, dirty>>
        /\ History(IF known THEN regs
                   ELSE [regs EXCEPT ![NewRid] = Reg(f, c, t, "connect", Len(sig[t][c]) + 1)])

tx_Do(t, c, base) ==
    \/ c.op = "managed" /\ tx_managed(t, c.flag, base)
    \/ c.op = "commit_unless_managed" /\ tx_commit_unless_managed(t, base)
    \/ c.op = "rollback_unless_managed" /\ tx_rollback_unless_managed(t, base)
    \/ c.op = "commit" /\ tx_commit(t, base)
    \/ c.op = "rollback" /\ tx_rollback(t, base)
    \/ c.op = "enter" /\ tx_enter_transaction_management(t, base)
    \/ c.op = "leave" /\ tx_leave_transaction_management(t, base)
    \/ c.op = "set_dirty" /\ set_dirty(t, base)
    \/ c.op = "connect" /\ tx_connect(t, c.chan, c.fn, base)
    \/ c.op = "raise" /\ raise(t, base)

\* Listeners of this variant: they return, dirty the transaction or raise
tx_Fns == {"noop", "dirty", "raise"}

tx_Calls ==
    {Call(n) : n \in {"commit_unless_managed", "rollback_unless_managed", "commit",
                      "rollback", "enter", "leave", "set_dirty"}}
    \cup {ManagedCall(p, FALSE) : p \in BOOLEAN}
    \cup {ConnectCall(c, f) : c \in Chans, f \in tx_Fns}

tx_App(t) ==
    /\ stack[t] = <<>>
    /\ \E c \in tx_Calls : tx_Do(t, c, <<>>)

\* Signal.send: the next receiver is called
tx_SendNext(t) ==
    /\ Running(t, "send")
    /\ Top(t).pending # <<>>
    /\ Len(stack[t]) < MaxDepth
    /\ UNCHANGED <<signals, state, dirty, exc>>
    /\ LET r == Head(Top(t).pending)
       IN  stack' = Set(stack, t,
               Push(RunFrame(r, Body(regs[r].fn), SenderKw),
                    Push([Top(t) EXCEPT !.pending = Tail(@)], Rest(t))))
    /\ History(regs)

\* commit and rollback call the original operation again after the broadcast
tx_again(t) ==
    /\ Running(t, "send")
    /\ Top(t).pending = <<>>
    /\ Top(t).via \in {"commit", "rollback"}
    /\ Top(t).olds = 1
    /\ dirty' = Set(dirty, t, FALSE)
    /\ stack' = Set(stack, t, Push([Top(t) EXCEPT !.olds = 2], Rest(t)))
    /\ UNCHANGED <<signals, state, exc>>
    /\ History(regs)

\* the patched operation returns to its caller
tx_SendDone(t) ==
    /\ Running(t, "send")
    /\ Top(t).pending = <<>>
    /\ Top(t).via \in {"commit", "rollback"} => Top(t).olds = 2
    /\ stack' = Set(stack, t, Rest(t))
    /\ exc' = Set(exc, t, Top(t).cont)
    /\ UNCHANGED <<signals, state, dirty>>
    /\ History(regs)

tx_RunStep(t) ==
    /\ Running(t, "run")
    /\ Top(t).body # <<>>
    /\ tx_Do(t, Head(Top(t).body), Push([Top(t) EXCEPT !.body = Tail(@)], Rest(t)))

NextTop ==
    \/ tx_App("A")
    \/ tx_SendNext("A")
    \/ tx_again("A")
    \/ tx_SendDone("A")
    \/ tx_RunStep("A")
    \/ RunReturn("A")
    \/ Unwind("A")

SpecTop == Init /\ [][NextTop]_vars

----------------------------------------------------------------------------
(* Claims *)

ReceiversOf(t) ==
    IF _has_signals(signals, t)
    THEN Range(signals[t].post_commit) \cup Range(signals[t].post_rollback)
    ELSE {}

\* The frames of t that run a receiver a broadcast has called
ListenerFrames(t) ==
    {i \in DOMAIN stack[t] : /\ stack[t][i].type \in {"run", "cos"}
                             /\ regs[stack[t][i].rid].how \in {"connect", "defer"}}

\* C1: a broadcast takes the thread's ThreadSignals out of the registry
\* before it calls the first listener: while a broadcast is in progress
\* neither the listeners it still has to call nor a listener that is running
\* are receivers of the thread's entry in the registry.
C1_ScopeRemovedBeforeListeners ==
    \A t \in Threads : \A i \in DOMAIN stack[t] :
        /\ stack[t][i].type = "send" => Range(stack[t][i].pending) \cap ReceiversOf(t) = {}
        /\ i \in ListenerFrames(t) => stack[t][i].rid \notin ReceiversOf(t)

\* A listener runs while its thread has an entry in the registry again
\* (the listener connected a receiver itself).
C1_Witness ==
    \E t \in Threads : \E i \in ListenerFrames(t) :
        /\ regs[stack[t][i].rid].calls = 1
        /\ _has_signals(signals, t)

\* The patched operations that commit before they broadcast
CommitOps == {"commit", "managed", "commit_unless_managed"}

\* The deferred receiver r has been called by a post_commit broadcast that
\* one of the committing operations has started and that is still going on
InCommitBroadcast(r) ==
    \E t \in Threads : \E i \in DOMAIN stack[t] :
        /\ stack[t][i].type = "send"
        /\ stack[t][i].chan = "post_commit"
        /\ stack[t][i].via \in CommitOps
        /\ r \in Range(stack[t][i].all) \ Range(stack[t][i].pending)

C3_NotRunAfterCleanExit ==
    \A r \in Rids : regs[r].how = "defer" /\ regs[r].ended => regs[r].runs = 0

\* A step in which t hands a callback to defer(): a callable of t that
\* defer() made appears in the history
Defers(t, r) ==
    /\ regs[r] = Free
    /\ regs'[r].owner = t
    /\ regs'[r].how \in {"defer", "direct"}

C4_Called ==
    \A r \in Rids : regs[r].how = "direct" =>
        /\ regs[r].calls = 1 /\ regs[r].runs = 1
        /\ r \notin Receivers(signals)
        /\ \A t \in Threads : \A i \in DOMAIN stack[t] :
              /\ r \notin Range(stack[t][i].all)
              /\ stack[t][i].rid = r => stack[t][i].type = "run" /\ stack[t][i].arg = Args

C4_Step ==
    \A t \in Threads : \A r \in Rids :
        Defers(t, r) /\ ~is_managed(t) =>
            /\ regs'[r].how = "direct"
            /\ signals' = signals
            /\ Head(stack'[t]) = RunFrame(r, Body(regs'[r].fn), Args)
            /\ regs'[r].runs = 1

\* C4: defer() called while the transaction is not managed calls the
\* callback at once, exactly once and with the arguments given (the call is
\* made in the step of defer, so before defer returns), connects nothing
\* and leaves the registry as it is.
C4_DeferOutsideRunsAtOnce == []C4_Called /\ [][C4_Step]_vars

\* The callback of an unmanaged defer() is running while the thread's
\* registry entry, made before, is still there.
C4_Witness ==
    \E t \in Threads : \E r \in Rids :
        /\ regs[r].how = "direct" /\ regs[r].owner = t
        /\ stack[t] # <<>> /\ Head(stack[t]).rid = r
        /\ ReceiversOf(t) # {}

\* Running(t, "send") with every receiver called: the step that ends the broadcast
EndsBroadcast(t) ==
    /\ Running(t, "send")
    /\ Top(t).pending = <<>>
    /\ stack'[t] # stack[t]

C5_Step ==
    \A t \in Threads :
        /\ EndsBroadcast(t) =>
              /\ stack'[t] = Rest(t)
              /\ exc'[t] = BadlyBehaved <=> is_dirty(t)
        /\ exc[t] # BadlyBehaved /\ exc'[t] = BadlyBehaved =>
              \/ EndsBroadcast(t) /\ is_dirty(t)
              \/ Running(t, "cos") /\ Top(t).saved = BadlyBehaved

\* A listener that dirtied the transaction and committed it returns with
\* the transaction clean
C5_CleanListener ==
    \A t \in Threads :
        (/\ Running(t, "run")
         /\ regs[Top(t).rid].fn = "dirty_commit"
         /\ Top(t).body = <<>>) => ~is_dirty(t)

\* C5: the broadcast of a commit or a rollback raises the badly-behaved
\* error exactly when the transaction is dirty once all listeners have been
\* called; a listener that dirties and commits does not leave it dirty; the
\* error is raised into the caller of the operation that broadcast.
C5_BadlyBehavedIffDirty == []C5_CleanListener /\ [][C5_Step]_vars

\* A broadcast has ended with the error, and it has propagated out of the
\* top-level call that broadcast
C5_Witness ==
    \E t \in Threads : stack[t] = <<>> /\ exc[t] = BadlyBehaved

\* The receivers that thread t has connected
OwnedBy(t) == {r \in Rids : regs[r].owner = t}

\* Every broadcast of a thread calls receivers of that thread only
C6_OwnListeners ==
    \A t \in Threads :
        /\ \A r \in ReceiversOf(t) : regs[r].owner = t
        /\ \A i \in DOMAIN stack[t] :
            /\ stack[t][i].type = "send" =>
                   \A r \in Range(stack[t][i].all) \cup Range(stack[t][i].dropped) :
                       regs[r].owner = t
            /\ i \in ListenerFrames(t) => regs[stack[t][i].rid].owner = t

\* A step of thread b leaves the registry entry of every other thread, and
\* the receivers they have connected, as they are
C6_Step ==
    \A b \in Threads : ThreadStep(b) =>
        \A a \in Threads \ {b} :
            /\ _has_signals(signals', a) <=> _has_signals(signals, a)
            /\ _has_signals(signals, a) => signals'[a] = signals[a]
            /\ \A r \in OwnedBy(a) : regs'[r] = regs[r]

\* C6: under any interleaving of the threads' steps, a listener that thread
\* A has connected to post_commit or post_rollback is never called by a
\* commit, rollback, commit_unless_managed, rollback_unless_managed or
\* managed call of another thread B, and no step of B removes or changes
\* A's entry in the registry.
C6_ThreadsApart == []C6_OwnListeners /\ [][C6_Step]_vars

\* One thread runs a listener of its own broadcast while another thread has
\* a receiver of the same signal waiting in its registry entry, uncalled.
C6_Witness ==
    \E a \in Threads : \E b \in Threads \ {a} : \E i \in ListenerFrames(b) :
        \E r \in ReceiversOf(a) :
            /\ regs[r].chan = regs[stack[b][i].rid].chan
            /\ regs[r].calls = 0
            /\ regs[stack[b][i].rid].calls = 1

\* The receivers of a broadcast are those of one signal in the order of
\* their connection; those no longer pending have been called once, the
\* pending ones not yet.
InOrder(f) ==
    LET n == Len(f.all)
        k == n - Len(f.pending)
    IN  /\ f.pending = SubSeq(f.all, k + 1, n)
        /\ \A j \in 1 .. n :
              /\ regs[f.all[j]].chan = f.chan
              /\ regs[f.all[j]].calls = IF j <= k THEN 1 ELSE 0
              /\ \A h \in 1 .. n : h < j => regs[f.all[h]].seq < regs[f.all[j]].seq

C7_Order ==
    \A t \in Threads : \A i \in DOMAIN stack[t] :
        stack[t][i].type = "send" => InOrder(stack[t][i])

\* The broadcast on top of t's stack ends in this step
Leaves(t) == stack[t] # <<>> /\ Top(t).type = "send" /\ stack'[t] = Rest(t)

C7_Step ==
    \A t \in Threads : Leaves(t) /\ exc[t] = None => Top(t).pending = <<>>

Cont(t) ==
    IF stack[t] = <<>> THEN <<>>
    ELSE IF Top(t).type = "run" THEN Push([Top(t) EXCEPT !.body = Tail(@)], Rest(t))
    ELSE CosNext(t, IF Top(t).phase = "managed" THEN "call" ELSE "finally")

\* In this step t calls c: application code at top level, a listener or a
\* callback, or commit_on_success around a deferred callback
CallBy(t, c) ==
    \/ stack[t] = <<>> /\ Do(t, c, <<>>)
    \/ /\ Running(t, "run") /\ Top(t).body # <<>> /\ Head(Top(t).body) = c
       /\ Do(t, c, Cont(t))
    \/ /\ Running(t, "cos")
       /\ \/ Top(t).phase = "managed" /\ c = ManagedCall(TRUE, FALSE)
          \/ Top(t).phase = "else" /\ is_dirty(t) /\ c = Call("commit")
          \/ Top(t).phase = "except" /\ is_dirty(t) /\ c = Call("rollback")
       /\ Do(t, c, Cont(t))

\* The step broadcasts on signal c of t's ThreadSignals, if t has one
Broadcasts(t, c) ==
    IF _has_signals(signals, t)
    THEN /\ stack'[t] # <<>>
         /\ Head(stack'[t]).type = "send"
         /\ Head(stack'[t]).chan = c
         /\ Head(stack'[t]).pending = signals[t][c]
         /\ Tail(stack'[t]) = Cont(t)
    ELSE stack'[t] = Cont(t)

\* No receiver is called in this step, and the registry stays as it is
Quiet(t) ==
    /\ stack'[t] = Cont(t)
    /\ signals' = signals
    /\ regs' = regs

\* Every broadcast in progress sends the signal of the operation that
\* started it to receivers of that signal only; those of the other signal
\* are not called
SendsOwnSignal(ops, c) ==
    \A t \in Threads : \A i \in DOMAIN stack[t] :
        stack[t][i].type = "send" /\ stack[t][i].via \in ops =>
            /\ stack[t][i].chan = c
            /\ \A r \in Range(stack[t][i].all) : regs[r].chan = c
            /\ \A r \in Range(stack[t][i].dropped) : regs[r].chan # c /\ regs[r].calls = 0

C8_Step ==
    \A t \in Threads :
        /\ CallBy(t, Call("commit")) => Broadcasts(t, "post_commit")
        /\ CallBy(t, Call("rollback")) => Broadcasts(t, "post_rollback")

\* C8: every commit() broadcasts post_commit and every rollback() broadcasts
\* post_rollback, whatever the managed and dirty flags; a commit calls no
\* post_rollback listener and a rollback no post_commit listener.
C8_CommitRollbackBroadcast ==
    /\ [](SendsOwnSignal({"commit"}, "post_commit") /\ SendsOwnSignal({"rollback"}, "post_rollback"))
    /\ [][C8_Step]_vars

\* A commit() made while the transaction was managed and clean is calling a
\* post_commit listener; the post_rollback listener of the same transaction
\* has not been called
C8_Witness ==
    \E t \in Threads : \E i \in DOMAIN stack[t] :
        /\ stack[t][i].type = "send" /\ stack[t][i].via = "commit"
        /\ stack[t][i].all # <<>> /\ stack[t][i].pending = <<>>
        /\ stack[t][i].dropped # <<>>
        /\ is_managed(t)

C9_Step ==
    \A t \in Threads :
        /\ CallBy(t, Call("commit_unless_managed")) =>
              IF ~is_managed(t) THEN Broadcasts(t, "post_commit") ELSE Quiet(t)
        /\ CallBy(t, Call("rollback_unless_managed")) =>
              IF ~is_managed(t) THEN Broadcasts(t, "post_rollback") ELSE Quiet(t)

\* C9: commit_unless_managed broadcasts post_commit and
\* rollback_unless_managed broadcasts post_rollback exactly when the
\* transaction is not managed; when it is managed the call calls no listener
\* and leaves the registry and its receivers as they are.
C9_UnlessManaged ==
    /\ [](/\ SendsOwnSignal({"commit_unless_managed"}, "post_commit")
          /\ SendsOwnSignal({"rollback_unless_managed"}, "post_rollback"))
    /\ [][C9_Step]_vars

\* rollback_unless_managed, not managed, has called a post_rollback listener
C9_Witness ==
    \E t \in Threads : \E i \in DOMAIN stack[t] :
        /\ stack[t][i].type = "send" /\ stack[t][i].via = "rollback_unless_managed"
        /\ stack[t][i].all # <<>> /\ stack[t][i].pending = <<>>
        /\ ~is_managed(t)

\* What the claim says of a call of managed() that clears the flag
ClearsManaged(t) ==
    IF is_dirty(t)
    THEN /\ Broadcasts(t, "post_commit")
         /\ _has_signals(signals, t) =>
               state'[t] = <<FALSE>> \o Tail(state[t]) /\ ~dirty'[t]
    ELSE /\ ~_has_signals(signals', t)
         /\ stack'[t] = Cont(t)
         /\ \A r \in Rids : regs'[r] \in {regs[r], Free}

\* C10: managed() with the flag cleared: when the transaction was dirty,
\* post_commit is broadcast after the original managed() has run; when it
\* was clean, the thread's ThreadSignals is removed and no listener is called.
C10_ManagedFalse ==
    [][\A t \in Threads : \A bykw \in BOOLEAN :
          CallBy(t, ManagedCall(FALSE, bykw)) => ClearsManaged(t)]_vars

\* C11: a thread is a key of the registry only while it has a transaction
\* scope: when the thread leaves its outermost level of transaction
\* management, its entry is gone from the registry.
C11_EntryGoneAfterScope ==
    [][\A t \in Threads :
          state[t] # <<>> /\ state'[t] = <<>> => ~_has_signals(signals', t)]_vars

\* C12: a call of the patched commit (rollback) calls the original commit
\* (rollback) exactly once, before the broadcast: from the start of the
\* broadcast until the patched operation returns the original has been
\* called once.
C12_OriginalOnce ==
    \A t \in Threads : \A i \in DOMAIN stack[t] :
        stack[t][i].type = "send" /\ stack[t][i].via \in {"commit", "rollback"} =>
            stack[t][i].olds = 1

\* The calls of the patched lifecycle operations
WrappedCalls ==
    {Call(n) : n \in {"commit", "rollback", "commit_unless_managed",
                      "rollback_unless_managed"}}
    \cup {ManagedCall(p, k) : p \in BOOLEAN, k \in BOOLEAN}

\* The managed flag and the dirty flag of t after the step are those the
\* host's original operation produces for the call c as the caller made it
HostAfter(t, c) ==
    CASE c.op = "managed" ->
             /\ state'[t] = <<c.flag>> \o Tail(state[t])
             /\ dirty'[t] = (IF ~c.flag /\ is_dirty(t) THEN FALSE ELSE dirty[t])
      [] c.op \in {"commit", "rollback"} ->
             /\ state'[t] = state[t]
             /\ dirty'[t] = FALSE
      [] c.op \in {"commit_unless_managed", "rollback_unless_managed"} ->
             /\ state'[t] = state[t]
             /\ dirty'[t] = (IF is_managed(t) THEN TRUE ELSE dirty[t])

\* C13: every patched operation hands the caller's inputs to the original,
\* so the managed and dirty flags after the call are those the original
\* produces for it; managed() passes on the flag the caller gave,
\* positionally or by keyword, True or False.
C13_OriginalGetsInputs ==
    [][\A t \in Threads : \A c \in WrappedCalls : CallBy(t, c) => HostAfter(t, c)]_vars

\* The receivers of t's entry in the registry sig
ReceiversIn(sig, t) ==
    IF _has_signals(sig, t)
    THEN Range(sig[t].post_commit) \cup Range(sig[t].post_rollback)
    ELSE {}

\* In this step a commit() or rollback() of t returns after its broadcast,
\* normally or with the badly-behaved-listener error
ReturnsAfterBroadcast(t) ==
    EndsBroadcast(t) /\ Top(t).via \in {"commit", "rollback"}

\* In this step t calls commit() or rollback() without an entry in the
\* registry, and the call returns at once
ReturnsAtOnce(t) ==
    /\ ~_has_signals(signals, t)
    /\ CallBy(t, Call("commit")) \/ CallBy(t, Call("rollback"))

C14_Step ==
    \A t \in Threads :
        /\ ReturnsAfterBroadcast(t) =>
              ReceiversIn(signals', t) \cap
                  (Range(Top(t).all) \cup Range(Top(t).dropped)) = {}
        /\ ReturnsAtOnce(t) => ~_has_signals(signals', t)

\* C14 as amended: when commit() or rollback() returns, normally or with the
\* badly-behaved-listener error, the ThreadSignals the thread had when it
\* made the call is out of the registry with all its receivers; the thread
\* has an entry only if a listener connected a receiver during the
\* broadcast, and that entry holds no receiver of the old one.
C14_OldScopeGoneAfterReturn == [][C14_Step]_vars

\* C14 as stated: when commit() or rollback() returns the thread has no
\* entry in the registry, whatever the listeners did.
C14_NoEntryAfterReturn ==
    [][\A t \in Threads :
          ReturnsAfterBroadcast(t) \/ ReturnsAtOnce(t) => ~_has_signals(signals', t)]_vars

\* The broadcast of a commit() or rollback() has called all its listeners
\* and is about to return, and the thread has an entry in the registry
\* again: a listener has connected a receiver.
C14_Witness ==
    \E t \in Threads :
        /\ Running(t, "send")
        /\ Top(t).via \in {"commit", "rollback"}
        /\ Top(t).all # <<>> /\ Top(t).pending = <<>>
        /\ ReceiversOf(t) # {}

\* The patched operations that broadcast, and when they do
BroadcastCalls ==
    {Call(n) : n \in {"commit", "rollback", "commit_unless_managed",
                      "rollback_unless_managed"}}
    \cup {ManagedCall(FALSE, TRUE)}

\* The call c of t reaches _send_post_commit or _send_post_rollback
ReachesBroadcast(t, c) ==
    CASE c.op \in {"commit", "rollback"} -> TRUE
      [] c.op \in {"commit_unless_managed", "rollback_unless_managed"} -> ~is_managed(t)
      [] c.op = "managed" -> is_dirty(t)

C15_Step ==
    \A t \in Threads : \A c \in BroadcastCalls :
        (/\ ~_has_signals(signals, t)
         /\ ReachesBroadcast(t, c)
         /\ CallBy(t, c)) =>
            /\ signals' = signals
            /\ regs' = regs
            /\ stack'[t] = Cont(t)
            /\ exc'[t] = None

\* C15: a broadcast by a thread without an entry in the registry does
\* nothing: no listener is called, the registry stays as it is, and the call
\* returns without the badly-behaved-listener error even when the
\* transaction is dirty after the original operation.
C15_NoScopeNoBroadcast == [][C15_Step]_vars

\* A listener that dirtied the transaction has called commit() while its
\* thread had no entry in the registry (the broadcast that called it had
\* removed it), and the call has returned normally.
C15_Witness ==
    \E t \in Threads :
        /\ Running(t, "run")
        /\ regs[Top(t).rid].fn = "dirty_commit"
        /\ Top(t).arg = SenderKw
        /\ Top(t).body = <<>>
        /\ ~_has_signals(signals, t)

\* C16: managed() with the flag set leaves the thread's entry in the
\* registry as it is: the receivers connected and the callbacks deferred
\* before the call are still registered after it.
C16_ManagedTrueKeepsEntry ==
    [][\A t \in Threads : \A bykw \in BOOLEAN :
          CallBy(t, ManagedCall(TRUE, bykw)) => signals' = signals]_vars

\* C17: a registration leads to at most one call: a receiver that a
\* broadcast has called is out of the registry, so no later commit or
\* rollback of the thread calls it again, and no receiver has been called
\* twice.
C17_CalledAtMostOnce ==
    \A r \in Rids :
        /\ regs[r].calls <= 1
        /\ r \in Receivers(signals) => regs[r].calls = 0

\* A broadcast has called its first listener, which has returned, and its
\* second listener has since called commit(): the first has been called
\* once.
C17_Witness ==
    \E t \in Threads : \E i \in DOMAIN stack[t] :
        /\ stack[t][i].type = "send"
        /\ Len(stack[t][i].all) = 2
        /\ regs[stack[t][i].all[1]].calls = 1
        /\ Running(t, "run")
        /\ Top(t).rid = stack[t][i].all[2]
        /\ regs[Top(t).rid].fn = "dirty_commit"
        /\ Top(t).body = <<>>

C19_LeaveFindsScope ==
    \A t \in Threads : exc[t] # AssertionError

====
